---------------------------- MODULE Spec2Model ----------------------------
(***************************************************************************)
(* Model of the WhatsApp message filter service (src/index.js): the        *)
(* system-message filter, the payload normalisation of POST /webhook, the  *)
(* classifier adapter classifyWithGPT, the sink adapter                    *)
(* writeToGoogleSheets, and the webhook handler run by several requests    *)
(* that interleave at the handler's two await points.                      *)
(*                                                                         *)
(* JavaScript values are tagged records.  A string is a tuple of atoms, so  *)
(* that trim, split, includes and the regular expressions are computed     *)
(* position by position.  An atom is one character ("LRM" stands for       *)
(* U+200E); in the text of the language model an atom is a brace, a comma, *)
(* a white-space character, or a whole lexeme the code never looks inside  *)
(* (a "key":value member, a "key": prefix, a run of prose, a code fence).  *)
(***************************************************************************)
EXTENDS Integers, Sequences, FiniteSets, TLC

(***************************************************************************)
(* JavaScript values                                                       *)
(***************************************************************************)
Undef == [t |-> "undefined"]
Null == [t |-> "null"]
Bool(b) == [t |-> "boolean", b |-> b]
Num(n) == [t |-> "number", n |-> n]
Str(s) == [t |-> "string", s |-> s]
Obj(f) == [t |-> "object", f |-> f]
\* a thrown exception travelling through an expression
Throw(m) == [t |-> "throw", message |-> m]

NoFields == [k \in {} |-> Undef]

IsThrow(v) == v.t = "throw"

\* ToBoolean: undefined, null, false, 0 and '' are falsy
Truthy(v) ==
    CASE v.t = "undefined" -> FALSE
      [] v.t = "null" -> FALSE
      [] v.t = "boolean" -> v.b
      [] v.t = "number" -> v.n # 0
      [] v.t = "string" -> v.s # <<>>
      [] OTHER -> TRUE

\* a || b : a when a is truthy, else b; an exception thrown by a propagates,
\* b is not evaluated when a is truthy
Or(a, b) == IF IsThrow(a) THEN a ELSE IF Truthy(a) THEN a ELSE b

\* o.k : the own property, undefined when missing or when o is a primitive;
\* a TypeError when o is undefined or null
Get(o, k) ==
    CASE o.t = "throw" -> o
      [] o.t \in {"undefined", "null"} -> Throw("Cannot read properties of undefined")
      [] o.t = "object" -> IF k \in DOMAIN o.f THEN o.f[k] ELSE Undef
      [] OTHER -> Undef

\* o?.k : undefined when o is undefined or null
OptGet(o, k) == IF o.t \in {"undefined", "null"} THEN Undef ELSE Get(o, k)

(***************************************************************************)
(* Strings                                                                 *)
(***************************************************************************)
UpperToLower ==
    [c \in {"A","B","C","D","E","F","G","H","I","J","K","L","M",
            "N","O","P","Q","R","S","T","U","V","W","X","Y","Z"} |->
        CASE c = "A" -> "a" [] c = "B" -> "b" [] c = "C" -> "c" [] c = "D" -> "d"
          [] c = "E" -> "e" [] c = "F" -> "f" [] c = "G" -> "g" [] c = "H" -> "h"
          [] c = "I" -> "i" [] c = "J" -> "j" [] c = "K" -> "k" [] c = "L" -> "l"
          [] c = "M" -> "m" [] c = "N" -> "n" [] c = "O" -> "o" [] c = "P" -> "p"
          [] c = "Q" -> "q" [] c = "R" -> "r" [] c = "S" -> "s" [] c = "T" -> "t"
          [] c = "U" -> "u" [] c = "V" -> "v" [] c = "W" -> "w" [] c = "X" -> "x"
          [] c = "Y" -> "y" [] c = "Z" -> "z"]

\* the case folding of the i flag
Fold(c) == IF c \in DOMAIN UpperToLower THEN UpperToLower[c] ELSE c

\* the characters \s matches and trim() removes
WhiteSpace == {" ", "\t", "\n"}

\* the characters . does not match
LineTerminators == {"\n"}

RECURSIVE TrimStart(_)
TrimStart(s) ==
    IF s # <<>> /\ Head(s) \in WhiteSpace THEN TrimStart(Tail(s)) ELSE s

RECURSIVE TrimEnd(_)
TrimEnd(s) ==
    IF s # <<>> /\ s[Len(s)] \in WhiteSpace
    THEN TrimEnd(SubSeq(s, 1, Len(s) - 1)) ELSE s

\* String.prototype.trim
Trim(s) == TrimEnd(TrimStart(s))

\* s.includes(w)
Includes(s, w) ==
    \E i \in 1..(Len(s) - Len(w) + 1) : SubSeq(s, i, i + Len(w) - 1) = w

RECURSIVE SplitFirst(_, _)
\* s.split(c)[0] : the characters of s before its first c, all of s without one
SplitFirst(s, c) ==
    IF s = <<>> \/ Head(s) = c THEN <<>> ELSE <<Head(s)>> \o SplitFirst(Tail(s), c)

(***************************************************************************)
(* Regular expressions.  A pattern is a sequence of elements: Start (^),   *)
(* End ($), a literal text, or a starred class: any atom but a line        *)
(* terminator, white space, or any atom.  All                              *)
(* patterns of the program but JSON_OBJECT carry the i flag, which folds   *)
(* letters; the atoms of JSON_OBJECT are not letters.                      *)
(***************************************************************************)
Lit(w) == [k |-> "lit", w |-> w]
Start == [k |-> "start"]
End == [k |-> "end"]
DotStar == [k |-> "star", class |-> "dot"]
WsStar == [k |-> "star", class |-> "ws"]
AnyStar == [k |-> "star", class |-> "any"]

InClass(c, class) ==
    CASE class = "dot" -> c \notin LineTerminators
      [] class = "ws" -> c \in WhiteSpace
      [] class = "any" -> TRUE

\* s with its letters folded
Folded(s) == [n \in DOMAIN s |-> Fold(s[n])]

\* the position after the longest run of atoms of the class from position j
RunEnd(s, j, class) ==
    IF \E n \in j..Len(s) : ~InClass(s[n], class)
    THEN CHOOSE n \in j..Len(s) :
             ~InClass(s[n], class) /\ \A m \in j..(n - 1) : InClass(s[m], class)
    ELSE Len(s) + 1

RECURSIVE MatchEnd(_, _, _, _)
\* elements i.. of pattern p matched against s from position j; a star takes
\* the most atoms that let the rest of the pattern match: the position after
\* the match, 0 when there is none
MatchEnd(p, i, s, j) ==
    IF i > Len(p) THEN j
    ELSE CASE p[i].k = "lit" ->
                IF /\ j + Len(p[i].w) - 1 <= Len(s)
                   /\ Folded(SubSeq(s, j, j + Len(p[i].w) - 1)) = Folded(p[i].w)
                THEN MatchEnd(p, i + 1, s, j + Len(p[i].w)) ELSE 0
           [] p[i].k = "star" ->
                LET ends == {e \in j..RunEnd(s, j, p[i].class) :
                                MatchEnd(p, i + 1, s, e) # 0}
                IN  IF ends = {} THEN 0
                    ELSE MatchEnd(p, i + 1, s,
                                  CHOOSE e \in ends : \A other \in ends : other <= e)
           [] p[i].k = "start" ->
                IF j = 1 THEN MatchEnd(p, i + 1, s, j) ELSE 0
           [] p[i].k = "end" ->
                IF j = Len(s) + 1 THEN MatchEnd(p, i + 1, s, j) ELSE 0

\* the leftmost position where p matches s, 0 when it matches nowhere
MatchStart(p, s) ==
    LET starts == {j \in 1..(Len(s) + 1) : MatchEnd(p, 1, s, j) # 0}
    IN  IF starts = {} THEN 0
        ELSE CHOOSE j \in starts : \A other \in starts : j <= other

\* pattern.test(s)
Test(p, s) == MatchStart(p, s) # 0

\* s.match(p)[0] for a pattern without the g flag: the matched text, Null
\* when p does not match
MatchText(p, s) ==
    LET j == MatchStart(p, s)
    IN  IF j = 0 THEN Null ELSE Str(SubSeq(s, j, MatchEnd(p, 1, s, j) - 1))

(***************************************************************************)
(* Message filter                                                          *)
(***************************************************************************)
SYSTEM_MESSAGE_PATTERNS ==
    << <<Start, Lit(<<"LRM">>), DotStar, Lit(<<"c","h","a","n","g","e","d"," ","t","h","e"," ","g","r","o","u","p">>), DotStar, End>>,
       <<Start, Lit(<<"LRM">>), DotStar, Lit(<<"a","d","d","e","d"," ","y","o","u">>), End>>,
       <<Start, Lit(<<"LRM">>), DotStar, Lit(<<"a","d","d","e","d">>), DotStar, End>>,
       <<Start, Lit(<<"LRM">>), DotStar, Lit(<<"r","e","m","o","v","e","d">>), DotStar, End>>,
       <<Start, Lit(<<"LRM">>), DotStar, Lit(<<"l","e","f","t">>), End>>,
       <<Start, Lit(<<"LRM">>), DotStar, Lit(<<"c","r","e","a","t","e","d"," ","g","r","o","u","p">>)>>,
       <<Start, Lit(<<"M","e","s","s","a","g","e","s"," ","a","n","d"," ","c","a","l","l","s"," ","a","r","e"," ","e","n","d","-","t","o","-","e","n","d"," ","e","n","c","r","y","p","t","e","d">>)>>,
       <<Start, Lit(<<"W","a","i","t","i","n","g"," ","f","o","r"," ","t","h","i","s"," ","m","e","s","s","a","g","e">>)>>,
       <<Start, Lit(<<"T","h","i","s"," ","m","e","s","s","a","g","e"," ","w","a","s"," ","d","e","l","e","t","e","d">>)>>,
       <<Start, Lit(<<"Y","o","u"," ","d","e","l","e","t","e","d"," ","t","h","i","s"," ","m","e","s","s","a","g","e">>)>>,
       <<Start, Lit(<<"n","u","l","l">>), End>>,
       <<Start, WsStar, End>> >>

\* isSystemMessage without the check for white space: neither the trimmed
\* comparison nor the last pattern
isSystemMessage_NoBlankCheck(body) ==
    IF ~Truthy(body) THEN Bool(TRUE)
    ELSE IF body.t # "string" THEN Throw("body.trim is not a function")
    ELSE Bool(\E n \in 1..(Len(SYSTEM_MESSAGE_PATTERNS) - 1) :
                  Test(SYSTEM_MESSAGE_PATTERNS[n], body.s))

\* isSystemMessage with the patterns tested against the trimmed body
isSystemMessage_Trimmed(body) ==
    IF ~Truthy(body) THEN Bool(TRUE)
    ELSE IF body.t # "string" THEN Throw("body.trim is not a function")
    ELSE IF Trim(body.s) = <<>> THEN Bool(TRUE)
    ELSE Bool(\E n \in 1..Len(SYSTEM_MESSAGE_PATTERNS) :
                  Test(SYSTEM_MESSAGE_PATTERNS[n], Trim(body.s)))

\* isSystemMessage(body): Bool(..), or the TypeError of body.trim when body is
\* truthy and not a string
isSystemMessage(body) ==
    IF ~Truthy(body) THEN Bool(TRUE)
    ELSE IF body.t # "string" THEN Throw("body.trim is not a function")
    ELSE IF Trim(body.s) = <<>> THEN Bool(TRUE)
    ELSE Bool(\E n \in 1..Len(SYSTEM_MESSAGE_PATTERNS) :
                  Test(SYSTEM_MESSAGE_PATTERNS[n], body.s))

(***************************************************************************)
(* Payload normalisation: the local constants of the webhook handler       *)
(***************************************************************************)
\* const event = payload.event || 'message'
event(payload) == Or(Get(payload, "event"), Str(<<"m","e","s","s","a","g","e">>))

\* event.includes('message'); a TypeError when event is not a string
eventIncludesMessage(ev) ==
    IF ev.t = "string" THEN Bool(Includes(ev.s, <<"m","e","s","s","a","g","e">>))
    ELSE Throw("event.includes is not a function")

\* const messageData = payload.payload || payload
messageData(payload) == Or(Get(payload, "payload"), payload)

\* const body = messageData.body || messageData.text || messageData.caption || ''
body(md) ==
    Or(Or(Or(Get(md, "body"), Get(md, "text")), Get(md, "caption")), Str(<<>>))

\* fromMe read from the field fromMe alone
fromMe_OnlyFromMe(md) == Or(Get(md, "fromMe"), Bool(FALSE))

\* const fromMe = messageData.fromMe || messageData.from_me || false
fromMe(md) == Or(Or(Get(md, "fromMe"), Get(md, "from_me")), Bool(FALSE))

\* const chatId = messageData.chatId || messageData.from || messageData.chat?.id || ''
chatId(md) ==
    Or(Or(Or(Get(md, "chatId"), Get(md, "from")), OptGet(Get(md, "chat"), "id")),
       Str(<<>>))

\* the chat id taken whole
chatIdLocalPart_NoSplit(cid) == cid

\* chatId.split('@')[0]; a TypeError when chatId is not a string
chatIdLocalPart(cid) ==
    IF cid.t = "string" THEN Str(SplitFirst(cid.s, "@"))
    ELSE Throw("chatId.split is not a function")

\* const sourceName = messageData._data?.notifyName || messageData.notifyName ||
\*     messageData.pushName || messageData.chat?.name || chatId.split('@')[0] || 'Unknown'
sourceName(md) ==
    Or(OptGet(Get(md, "_data"), "notifyName"),
    Or(Get(md, "notifyName"),
    Or(Get(md, "pushName"),
    Or(OptGet(Get(md, "chat"), "name"),
    Or(chatIdLocalPart(chatId(md)),
       Str(<<"U","n","k","n","o","w","n">>))))))

(***************************************************************************)
(* HTTP responses of the handler                                           *)
(***************************************************************************)
Skipped(reason) == [http |-> 200, status |-> "skipped", reason |-> reason]
NotAnActionItem == [http |-> 200, status |-> "processed", isActionItem |-> FALSE]
ActionItem(classification) ==
    [http |-> 200, status |-> "processed", isActionItem |-> TRUE,
     classification |-> classification]
Error500(message) == [http |-> 500, status |-> "error", message |-> message]

\* The handler from its entry to the call of classifyWithGPT: the response it
\* sends when it returns before that call, else the arguments of the call.
WebhookStart(payload) ==
    LET ev == event(payload)
        inc == eventIncludesMessage(ev)
        md == messageData(payload)
        sys == isSystemMessage(body(md))
        name == sourceName(md)
    IN  IF IsThrow(inc) THEN [respond |-> TRUE, response |-> Error500(inc.message)]
        ELSE IF ~inc.b
        THEN [respond |-> TRUE, response |-> Skipped("non-message event")]
        ELSE IF Truthy(fromMe(md))
        THEN [respond |-> TRUE, response |-> Skipped("outgoing message")]
        ELSE IF IsThrow(sys) THEN [respond |-> TRUE, response |-> Error500(sys.message)]
        ELSE IF sys.b
        THEN [respond |-> TRUE, response |-> Skipped("system or empty message")]
        ELSE IF IsThrow(name) THEN [respond |-> TRUE, response |-> Error500(name.message)]
        ELSE [respond |-> FALSE, body |-> body(md), chatId |-> chatId(md),
              sourceName |-> name]

(***************************************************************************)
(* Classifier adapter                                                      *)
(***************************************************************************)
\* /\{[\s\S]*\}/
JSON_OBJECT == <<Lit(<<"{">>), AnyStar, Lit(<<"}">>)>>

\* the "key":value lexemes of the model's text, with what JSON.parse reads
MemberLexemes ==
    [m \in {"\"isActionItem\":true", "\"isActionItem\":false",
            "\"responsible\":\"Alice\"", "\"responsible\":\"\"",
            "\"urgency\":\"Urgent\"", "\"urgency\":\"\"",
            "\"due\":\"Monday\"", "\"due\":\"\"",
            "\"summary\":\"Send contract\""} |->
        CASE m = "\"isActionItem\":true" -> [key |-> "isActionItem", val |-> Bool(TRUE)]
          [] m = "\"isActionItem\":false" -> [key |-> "isActionItem", val |-> Bool(FALSE)]
          [] m = "\"responsible\":\"Alice\"" -> [key |-> "responsible", val |-> Str(<<"A","l","i","c","e">>)]
          [] m = "\"responsible\":\"\"" -> [key |-> "responsible", val |-> Str(<<>>)]
          [] m = "\"urgency\":\"Urgent\"" -> [key |-> "urgency", val |-> Str(<<"U","r","g","e","n","t">>)]
          [] m = "\"urgency\":\"\"" -> [key |-> "urgency", val |-> Str(<<>>)]
          [] m = "\"due\":\"Monday\"" -> [key |-> "due", val |-> Str(<<"M","o","n","d","a","y">>)]
          [] m = "\"due\":\"\"" -> [key |-> "due", val |-> Str(<<>>)]
          [] m = "\"summary\":\"Send contract\"" ->
                [key |-> "summary", val |-> Str(<<"S","e","n","d"," ","c","o","n","t","r","a","c","t">>)]]

\* the "key": lexemes, each to be followed by an object
KeyLexemes == [m \in {"\"meta\":"} |-> "meta"]

RECURSIVE SkipWs(_, _)
\* the first position from j on that holds no white space
SkipWs(s, j) ==
    IF j <= Len(s) /\ s[j] \in WhiteSpace THEN SkipWs(s, j + 1) ELSE j

Put(f, key, val) == [k \in DOMAIN f \cup {key} |-> IF k = key THEN val ELSE f[k]]

ParseFail == [ok |-> FALSE]

RECURSIVE ParseObject(_, _)
RECURSIVE ParseMembers(_, _, _)
\* an object from position j: { } or { member , member ... }
ParseObject(s, j) ==
    IF j > Len(s) \/ s[j] # "{" THEN ParseFail
    ELSE LET k == SkipWs(s, j + 1)
         IN  IF k <= Len(s) /\ s[k] = "}"
             THEN [ok |-> TRUE, pos |-> k + 1, fields |-> NoFields]
             ELSE ParseMembers(s, k, NoFields)

\* the members from position j on, up to the closing brace; a later member
\* replaces an earlier one of the same key
ParseMembers(s, j, fields) ==
    LET one ==
            IF j > Len(s) THEN ParseFail
            ELSE IF s[j] \in DOMAIN MemberLexemes
            THEN [ok |-> TRUE, pos |-> j + 1,
                  fields |-> Put(fields, MemberLexemes[s[j]].key, MemberLexemes[s[j]].val)]
            ELSE IF s[j] \in DOMAIN KeyLexemes
            THEN LET inner == ParseObject(s, SkipWs(s, j + 1))
                 IN  IF inner.ok
                     THEN [ok |-> TRUE, pos |-> inner.pos,
                           fields |-> Put(fields, KeyLexemes[s[j]], Obj(inner.fields))]
                     ELSE ParseFail
            ELSE ParseFail
    IN  IF ~one.ok THEN ParseFail
        ELSE LET k == SkipWs(s, one.pos)
             IN  IF k > Len(s) THEN ParseFail
                 ELSE IF s[k] = "}"
                 THEN [ok |-> TRUE, pos |-> k + 1, fields |-> one.fields]
                 ELSE IF s[k] = ","
                 THEN ParseMembers(s, SkipWs(s, k + 1), one.fields)
                 ELSE ParseFail

\* JSON.parse(text) for a text that starts with a brace: the object, or a
\* SyntaxError when the whole text is not one object
JSONparse(text) ==
    LET parsed == ParseObject(text, SkipWs(text, 1))
    IN  IF parsed.ok /\ SkipWs(text, parsed.pos) = Len(text) + 1
        THEN Obj(parsed.fields)
        ELSE Throw("SyntaxError")

\* response.data.choices[0].message.content.trim(); a TypeError when a link
\* of the chain is missing or the content is not a string
content(data) ==
    LET c == Get(Get(Get(Get(data, "choices"), "0"), "message"), "content")
    IN  IF IsThrow(c) THEN c
        ELSE IF c.t = "string" THEN Str(Trim(c.s))
        ELSE Throw("content.trim is not a function")

\* { isActionItem: false }
NotActionItemResult == Obj([k \in {"isActionItem"} |-> Bool(FALSE)])

\* the try block of classifyWithGPT once axios.post has resolved with data
classifyTry(data) ==
    LET text == content(data)
        jsonMatch == MatchText(JSON_OBJECT, text.s)
    IN  IF IsThrow(text) THEN text
        ELSE IF Truthy(jsonMatch) THEN JSONparse(jsonMatch.s)
        ELSE NotActionItemResult

\* classifyWithGPT without its catch block
classifyWithGPT_Uncaught(message, name, reply) ==
    IF reply.kind # "resolved" THEN Throw("Request failed")
    ELSE classifyTry(reply.data)

\* classifyWithGPT(message, sourceName) given how axios.post settles: it
\* rejects on a transport error and on a non-2xx status, else resolves
classifyWithGPT(message, name, reply) ==
    IF reply.kind # "resolved" THEN NotActionItemResult
    ELSE LET result == classifyTry(reply.data)
         IN  IF IsThrow(result) THEN NotActionItemResult ELSE result

(***************************************************************************)
(* Sink adapter                                                            *)
(***************************************************************************)
\* writeToGoogleSheets without its catch block
writeToGoogleSheets_Uncaught(data, reply) ==
    IF reply.kind = "resolved" THEN Bool(TRUE) ELSE Throw("Request failed")

\* writeToGoogleSheets(data) given how axios.post settles
writeToGoogleSheets(data, reply) == Bool(reply.kind = "resolved")

\* the record without the defaults of responsible, urgency and due
sheetData_NoDefaults(now, msg, classification) ==
    [timestamp |-> now,
     source |-> msg.sourceName,
     message |-> msg.body,
     responsible |-> Get(classification, "responsible"),
     urgency |-> Get(classification, "urgency"),
     due |-> Get(classification, "due"),
     status |-> "Open",
     chatId |-> msg.chatId]

\* the record the handler builds for a positive classification
sheetData(now, msg, classification) ==
    [timestamp |-> now,
     source |-> msg.sourceName,
     message |-> msg.body,
     responsible |-> Or(Get(classification, "responsible"), Str(<<"U","n","k","n","o","w","n">>)),
     urgency |-> Or(Get(classification, "urgency"), Str(<<"N","o","r","m","a","l">>)),
     due |-> Or(Get(classification, "due"), Str(<<"N","o","n","e">>)),
     status |-> "Open",
     chatId |-> msg.chatId]

(***************************************************************************)
(* Bounds                                                                  *)
(***************************************************************************)
\* requests in flight together
NumReqs == 2
\* fragments a message body is put together from
MaxFragments == 2
\* atoms of the language model's text
MaxTextLen == 4
\* instants new Date() can return
MaxTime == 2

Reqs == 1..NumReqs
Times == 1..MaxTime

(***************************************************************************)
(* Inbound events.  A payload is built from the optional fields the        *)
(* handler reads; a field that is undefined here is absent from the JSON.  *)
(***************************************************************************)
MkObj(f) == Obj([k \in {k \in DOMAIN f : f[k].t # "undefined"} |-> f[k]])

FieldNames ==
    {"body", "text", "caption", "fromMe", "from_me", "chatId", "from", "chat",
     "_data", "notifyName", "pushName"}

NoMessageFields == [k \in FieldNames |-> Undef]

\* the flat format: the event tag and the message fields side by side
Direct(ev, m) ==
    MkObj([k \in FieldNames \cup {"event"} |-> IF k = "event" THEN ev ELSE m[k]])

\* the nested format: the message fields under payload, beside the event tag
\* and whatever fields the outer object has of its own
Nested(ev, m, outer) ==
    MkObj([k \in FieldNames \cup {"event", "payload"} |->
              IF k = "event" THEN ev
              ELSE IF k = "payload" THEN MkObj(m) ELSE outer[k]])

Formats(ev, m, outers) == {Direct(ev, m)} \cup {Nested(ev, m, o) : o \in outers}

Hello == Str(<<"C","a","n"," ","y","o","u"," ","s","e","n","d"," ","t","h","e"," ","i","n","v","o","i","c","e"," ","b","y"," ","F","r","i","d","a","y","?">>)
Contract == Str(<<"P","l","e","a","s","e"," ","s","e","n","d"," ","t","h","e"," ","c","o","n","t","r","a","c","t"," ","b","y"," ","M","o","n","d","a","y",","," ","u","r","g","e","n","t","!">>)

\* outer fields that differ from every nested field
OuterFields ==
    [NoMessageFields EXCEPT !["body"] = Str(<<"o","u","t","e","r">>),
                            !["from_me"] = Bool(TRUE),
                            !["chatId"] = Str(<<"o","u","t","e","r","@","c",".","u","s">>),
                            !["pushName"] = Str(<<"O","u","t","e","r">>)]

EventTags ==
    {Undef, Null, Str(<<>>), Str(<<"m","e","s","s","a","g","e">>), Str(<<"m","e","s","s","a","g","e",".","a","n","y">>),
     Str(<<"m","e","s","s","a","g","e",".","a","c","k">>), Str(<<"s","e","s","s","i","o","n",".","s","t","a","t","u","s">>), Str(<<"M","E","S","S","A","G","E">>), Num(5)}

\* payloads that differ in the event tag
EventPayloads ==
    UNION {Formats(ev, [NoMessageFields EXCEPT !["body"] = b, !["fromMe"] = fm,
                                               !["chatId"] = Str(<<"9","9","9","@","c",".","u","s">>)],
                   {NoMessageFields}) :
           <<ev, b, fm>> \in EventTags \X {Hello, Str(<<>>)} \X {Undef, Bool(TRUE)}}

\* payloads that differ in fromMe and from_me
FromMePayloads ==
    UNION {Formats(Str(<<"m","e","s","s","a","g","e">>),
                   [NoMessageFields EXCEPT !["body"] = b, !["fromMe"] = a,
                                           !["from_me"] = c],
                   {NoMessageFields}) :
           <<a, c, b>> \in {Undef, Bool(FALSE), Bool(TRUE)}
                           \X {Undef, Bool(FALSE), Bool(TRUE)}
                           \X {Hello, Str(<<>>)}}

\* payloads that differ in body, text and caption
BodyPayloads ==
    UNION {Formats(Undef,
                   [NoMessageFields EXCEPT !["body"] = b, !["text"] = t,
                                           !["caption"] = c],
                   {NoMessageFields, OuterFields}) :
           <<b, t, c>> \in {Undef, Null, Str(<<>>), Str(<<" ","\n">>), Str(<<"b">>), Num(5)}
                           \X {Undef, Str(<<>>), Str(<<"\t">>), Str(<<"t">>)}
                           \X {Undef, Str(<<"c">>)}}

ChatValues ==
    {Undef, Null,
     Obj([k \in {"id"} |-> Str(<<"7","7","@","g",".","u","s">>)]),
     Obj([k \in {"name"} |-> Str(<<"T","e","a","m">>)]),
     Obj([k \in {"id", "name"} |->
             IF k = "id" THEN Str(<<"7","7","@","g",".","u","s">>) ELSE Str(<<>>)])}

DataValues ==
    {Undef, Obj(NoFields),
     Obj([k \in {"notifyName"} |-> Str(<<>>)]),
     Obj([k \in {"notifyName"} |-> Str(<<"D","a","n","a">>)])}

\* payloads that differ in the fields chatId and sourceName are read from
SourcePayloads ==
    {Direct(Str(<<"m","e","s","s","a","g","e">>),
            [NoMessageFields EXCEPT !["body"] = Hello, !["_data"] = d,
                                    !["notifyName"] = n, !["pushName"] = p,
                                    !["chat"] = c, !["chatId"] = i, !["from"] = f]) :
     <<d, n, p, c, i, f>> \in
        DataValues
        \X {Undef, Str(<<>>), Str(<<"A","l","i","c","e">>)}
        \X {Undef, Str(<<"B","o","b">>)}
        \X ChatValues
        \X {Undef, Str(<<>>), Str(<<"1","2","3","4","@","g",".","u","s">>), Str(<<"@","g",".","u","s">>), Str(<<"1","2","3","4">>), Num(7)}
        \X {Undef, Str(<<"5","5","@","c",".","u","s">>)}}

NormalizePayloads ==
    EventPayloads \cup FromMePayloads \cup BodyPayloads \cup SourcePayloads

\* what message bodies are put together from
Fragments ==
    {<<" ">>, <<"\n">>, <<"LRM">>, <<"x">>,
     <<"LRM","B","o","b"," ","c","h","a","n","g","e","d"," ","t","h","e"," ","g","r","o","u","p"," ","d","e","s","c","r","i","p","t","i","o","n">>, <<"B","o","b"," ","a","d","d","e","d"," ","y","o","u">>,
     <<"LRM","B","o","b"," ","A","d","d","e","d"," ","C","a","r","o","l">>, <<"LRM","B","o","b"," ","r","e","m","o","v","e","d"," ","C","a","r","o","l">>, <<"LRM","C","a","r","o","l"," ","l","e","f","t">>,
     <<"LRM","B","o","b"," ","c","r","e","a","t","e","d"," ","g","r","o","u","p"," ","\"","T","e","a","m","\"">>,
     <<"M","e","s","s","a","g","e","s"," ","a","n","d"," ","c","a","l","l","s"," ","a","r","e"," ","e","n","d","-","t","o","-","e","n","d"," ","e","n","c","r","y","p","t","e","d","."," ","N","o"," ","o","n","e"," ","o","u","t","s","i","d","e"," ","o","f"," ","t","h","i","s"," ","c","h","a","t"," ","c","a","n"," ","r","e","a","d"," ","t","h","e","m",".">>,
     <<"W","A","I","T","I","N","G"," ","F","O","R"," ","T","H","I","S"," ","M","E","S","S","A","G","E","."," ","T","h","i","s"," ","m","a","y"," ","t","a","k","e"," ","a"," ","w","h","i","l","e",".">>,
     <<"T","h","i","s"," ","m","e","s","s","a","g","e"," ","w","a","s"," ","d","e","l","e","t","e","d">>, <<"y","o","u"," ","d","e","l","e","t","e","d"," ","t","h","i","s"," ","m","e","s","s","a","g","e">>,
     <<"n","u","l","l">>, <<"N","U","L","L">>,
     <<"C","a","n"," ","y","o","u"," ","s","e","n","d"," ","t","h","e"," ","i","n","v","o","i","c","e"," ","b","y"," ","F","r","i","d","a","y","?">>}

RECURSIVE Concat(_)
Concat(ss) == IF ss = <<>> THEN <<>> ELSE Head(ss) \o Concat(Tail(ss))

Bodies == UNION {{Concat(ss) : ss \in [1..n -> Fragments]} : n \in 0..MaxFragments}

\* payloads that differ in the message body alone
FilterPayloads ==
    {Direct(Str(<<"m","e","s","s","a","g","e">>),
            [NoMessageFields EXCEPT !["body"] = Str(b),
                                    !["chatId"] = Str(<<"9","9","9","@","c",".","u","s">>)]) :
     b \in Bodies}

\* the event of the end-to-end example
ContractEvent ==
    Nested(Str(<<"m","e","s","s","a","g","e">>),
           [NoMessageFields EXCEPT !["body"] = Contract, !["fromMe"] = Bool(FALSE),
                                   !["chatId"] = Str(<<"9","9","9","@","c",".","u","s">>),
                                   !["notifyName"] = Str(<<"A","l","i","c","e">>)],
           NoMessageFields)

HandlerPayloads ==
    {ContractEvent,
     Direct(Undef, [NoMessageFields EXCEPT !["text"] = Hello,
                                           !["from"] = Str(<<"1","2","3","4","@","g",".","u","s">>)]),
     Direct(Str(<<"m","e","s","s","a","g","e">>), NoMessageFields),
     Direct(Str(<<"m","e","s","s","a","g","e">>), [NoMessageFields EXCEPT !["body"] = Hello,
                                                       !["from_me"] = Bool(TRUE)]),
     Direct(Str(<<"s","e","s","s","i","o","n",".","s","t","a","t","u","s">>), NoMessageFields),
     Direct(Str(<<"m","e","s","s","a","g","e">>), [NoMessageFields EXCEPT !["body"] = Num(5)])}

\* the example, and events whose fields are of the wrong type
ClassifierPayloads ==
    {ContractEvent,
     Direct(Num(5), [NoMessageFields EXCEPT !["body"] = Hello]),
     Direct(Str(<<"m","e","s","s","a","g","e">>), [NoMessageFields EXCEPT !["body"] = Num(5)]),
     Direct(Str(<<"m","e","s","s","a","g","e">>), [NoMessageFields EXCEPT !["body"] = Hello,
                                                       !["chatId"] = Num(7)])}

(***************************************************************************)
(* How the two outbound axios.post calls settle                            *)
(***************************************************************************)
Rejected(why) == [kind |-> "rejected", why |-> why]
Resolved(data) == [kind |-> "resolved", data |-> data]

\* transport failure, and the non-2xx statuses axios rejects on
Rejections == {Rejected("network"), Rejected("401"), Rejected("500")}

\* the body of a completion whose choices[0].message.content is c
Completion(c) ==
    Obj([k \in {"choices"} |->
        Obj([i \in {"0"} |->
            Obj([m \in {"message"} |-> MkObj([n \in {"content"} |-> c])])])])

\* completions without a usable choices[0].message.content
BrokenCompletions ==
    {Obj(NoFields),
     Obj([k \in {"choices"} |-> Obj(NoFields)]),
     Completion(Undef), Completion(Null), Completion(Num(1))}

TextAtoms ==
    {"{", "}", ",", " ", "FENCE", "prose",
     "\"isActionItem\":true", "\"isActionItem\":false", "\"meta\":"}

Texts == UNION {[1..n -> TextAtoms] : n \in 0..MaxTextLen}

Optional(lexemes) == {<<>>} \cup {<<",", l>> : l \in lexemes}

\* positive answers that differ in the keys the record is filled from, bare or
\* in a code fence
AnswerTexts ==
    {pre \o <<"{", "\"isActionItem\":true">> \o r \o u \o d \o s \o <<"}">> \o post :
     <<r, u, d, s, pre, post>> \in
        Optional({"\"responsible\":\"Alice\"", "\"responsible\":\"\""})
        \X Optional({"\"urgency\":\"Urgent\"", "\"urgency\":\"\""})
        \X Optional({"\"due\":\"Monday\"", "\"due\":\"\""})
        \X Optional({"\"summary\":\"Send contract\""})
        \X {<<>>, <<"FENCE", "\n">>}
        \X {<<>>, <<"\n", "FENCE">>}}

ClassifierReplies ==
    Rejections \cup {Resolved(d) : d \in BrokenCompletions}
    \cup {Resolved(Completion(Str(t))) : t \in Texts \cup AnswerTexts}

\* the answer of the end-to-end example
ContractAnswer ==
    <<"{", "\"isActionItem\":true", ",", "\"responsible\":\"Alice\"", ",",
      "\"urgency\":\"Urgent\"", ",", "\"due\":\"Monday\"", ",",
      "\"summary\":\"Send contract\"", "}">>

FewReplies ==
    {Rejected("network"),
     Resolved(Completion(Str(ContractAnswer))),
     Resolved(Completion(Str(<<"{", "\"isActionItem\":false", "}">>))),
     Resolved(Completion(Str(<<"prose">>)))}

SheetsReplies == Rejections \cup {Resolved(Str(<<"o","k">>))}

\* The families of inputs: "handler" runs NumReqs requests together on a few
\* inputs; the others run one request on all inputs of one kind.
Arriving(s) == IF s = "handler" THEN Reqs ELSE {1}

Payloads(s) ==
    CASE s = "handler" -> HandlerPayloads
      [] s = "normalize" -> NormalizePayloads
      [] s = "filter" -> FilterPayloads
      [] s = "classifier" -> ClassifierPayloads

Replies(s) == IF s = "classifier" THEN ClassifierReplies ELSE FewReplies

(***************************************************************************)
(* The webhook handler                                                     *)
(***************************************************************************)
VARIABLES
    scope,          \* the family of inputs of this run
    pc,             \* where each request's handler stands
    payload,        \* req.body
    msg,            \* body, chatId and sourceName of the handler
    llm,            \* how the classifier's axios.post settled
    classification, \* what classifyWithGPT returned
    sheets,         \* how the sink's axios.post settled
    trace           \* per request: the calls made and the responses sent

vars == <<scope, pc, payload, msg, llm, classification, sheets, trace>>

Begin(s) ==
    /\ scope = s
    /\ pc = [r \in Reqs |-> "idle"]
    /\ payload = [r \in Reqs |-> Undef]
    /\ msg = [r \in Reqs |-> Undef]
    /\ llm = [r \in Reqs |-> Undef]
    /\ classification = [r \in Reqs |-> Undef]
    /\ sheets = [r \in Reqs |-> Undef]
    /\ trace = [r \in Reqs |-> <<>>]

ClassifyCall(m) == [e |-> "classify", message |-> m.body, sourceName |-> m.sourceName]
ClassifyReturn(c) == [e |-> "classified", classification |-> c]
SheetsCall(data) == [e |-> "append", data |-> data]
SheetsReturn(ok) == [e |-> "appended", ok |-> ok]
Respond(response) == [e |-> "respond", response |-> response]

\* POST /webhook arrives: the handler runs to its first response or to the
\* await of classifyWithGPT, whose axios.post is then in flight
Receive(r) ==
    /\ r \in Arriving(scope)
    /\ pc[r] = "idle"
    /\ \E p \in Payloads(scope) :
          LET w == WebhookStart(p)
          IN  /\ payload' = [payload EXCEPT ![r] = p]
              /\ IF w.respond
                 THEN /\ pc' = [pc EXCEPT ![r] = "done"]
                      /\ trace' = [trace EXCEPT ![r] = @ \o <<Respond(w.response)>>]
                      /\ msg' = msg
                 ELSE /\ pc' = [pc EXCEPT ![r] = "classifying"]
                      /\ msg' = [msg EXCEPT ![r] =
                                    [body |-> w.body, chatId |-> w.chatId,
                                     sourceName |-> w.sourceName]]
                      /\ trace' = [trace EXCEPT ![r] = @ \o <<ClassifyCall(w)>>]
    /\ UNCHANGED <<scope, llm, classification, sheets>>

\* Classified without the await of writeToGoogleSheets: the handler responds
\* as soon as it has called the sink
Classified_NoAwait(r) ==
    /\ pc[r] = "classifying"
    /\ \E reply \in Replies(scope), now \in Times :
          LET c == classifyWithGPT(msg[r].body, msg[r].sourceName, reply)
              data == sheetData(now, msg[r], c)
          IN  /\ llm' = [llm EXCEPT ![r] = reply]
              /\ classification' = [classification EXCEPT ![r] = c]
              /\ trace' = [trace EXCEPT ![r] =
                              IF Truthy(Get(c, "isActionItem"))
                              THEN @ \o <<ClassifyReturn(c), SheetsCall(data),
                                          Respond(ActionItem(c))>>
                              ELSE @ \o <<ClassifyReturn(c), Respond(NotAnActionItem)>>]
    /\ pc' = [pc EXCEPT ![r] = "done"]
    /\ UNCHANGED <<scope, payload, msg, sheets>>

\* the classifier's axios.post settles: classifyWithGPT returns and the
\* handler runs to the await of writeToGoogleSheets or to its response; an
\* exception out of the awaited call is answered by the handler's catch block
Classified(r) ==
    /\ pc[r] = "classifying"
    /\ \E reply \in Replies(scope), now \in Times :
          LET c == classifyWithGPT(msg[r].body, msg[r].sourceName, reply)
              data == sheetData(now, msg[r], c)
          IN  /\ llm' = [llm EXCEPT ![r] = reply]
              /\ classification' = [classification EXCEPT ![r] = c]
              /\ IF IsThrow(c)
                 THEN /\ pc' = [pc EXCEPT ![r] = "done"]
                      /\ trace' = [trace EXCEPT ![r] =
                                      @ \o <<Respond(Error500(c.message))>>]
                 ELSE IF Truthy(Get(c, "isActionItem"))
                 THEN /\ pc' = [pc EXCEPT ![r] = "appending"]
                      /\ trace' = [trace EXCEPT ![r] =
                                      @ \o <<ClassifyReturn(c), SheetsCall(data)>>]
                 ELSE /\ pc' = [pc EXCEPT ![r] = "done"]
                      /\ trace' = [trace EXCEPT ![r] =
                                      @ \o <<ClassifyReturn(c), Respond(NotAnActionItem)>>]
    /\ UNCHANGED <<scope, payload, msg, sheets>>

\* the sink's axios.post settles: writeToGoogleSheets returns and the handler
\* responds
Appended(r) ==
    /\ pc[r] = "appending"
    /\ \E reply \in SheetsReplies :
          LET data == trace[r][Len(trace[r])].data
              written == writeToGoogleSheets(data, reply)
          IN  /\ sheets' = [sheets EXCEPT ![r] = reply]
              /\ trace' = [trace EXCEPT ![r] =
                              IF IsThrow(written)
                              THEN @ \o <<Respond(Error500(written.message))>>
                              ELSE @ \o <<SheetsReturn(written),
                                          Respond(ActionItem(classification[r]))>>]
    /\ pc' = [pc EXCEPT ![r] = "done"]
    /\ UNCHANGED <<scope, payload, msg, llm, classification>>

Next == \E r \in Reqs : Receive(r) \/ Classified(r) \/ Appended(r)

Init == Begin("handler")
Spec == Init /\ [][Next]_vars

InitNormalize == Begin("normalize")
SpecNormalize == InitNormalize /\ [][Next]_vars

InitFilter == Begin("filter")
SpecFilter == InitFilter /\ [][Next]_vars

InitClassifier == Begin("classifier")
SpecClassifier == InitClassifier /\ [][Next]_vars

(***************************************************************************)
(* What the properties below read off a run                                *)
(***************************************************************************)
Received(r) == pc[r] # "idle"
Done(r) == pc[r] = "done"
IsSet(v) == "t" \notin DOMAIN v \/ v.t # "undefined"

\* the events of one kind in a request's trace, by position
Events(r, e) == {i \in DOMAIN trace[r] : trace[r][i].e = e}

\* the response of a request that is done
Response(r) == trace[r][Len(trace[r])].response

\* the value is there and is not the empty string
NonEmpty(v) ==
    /\ v.t \notin {"undefined", "null"}
    /\ v.t = "string" => v.s # <<>>
    /\ v.t = "boolean" => v.b
    /\ v.t = "number" => v.n # 0

\* the first non-empty value of a chain, else the default
FirstOf(vs, default) ==
    IF \E i \in DOMAIN vs : NonEmpty(vs[i])
    THEN vs[CHOOSE i \in DOMAIN vs :
                NonEmpty(vs[i]) /\ \A j \in 1..(i - 1) : ~NonEmpty(vs[j])]
    ELSE default

\* the first value of a chain that is not undefined, else the default
FirstDefined(vs, default) ==
    IF \E i \in DOMAIN vs : vs[i].t # "undefined"
    THEN vs[CHOOSE i \in DOMAIN vs :
                vs[i].t # "undefined" /\ \A j \in 1..(i - 1) : vs[j].t = "undefined"]
    ELSE default

\* property k of v, undefined when v is no object or has no such property
Sub(v, k) == IF v.t = "object" /\ k \in DOMAIN v.f THEN v.f[k] ELSE Undef

\* the object the message fields of a received event are read from
Fields(r) ==
    IF NonEmpty(Sub(payload[r], "payload")) THEN Sub(payload[r], "payload")
    ELSE payload[r]

\* the event tag is missing, or a string that contains "message"
IsMessageEvent(r) ==
    LET tag == Sub(payload[r], "event")
    IN  \/ ~NonEmpty(tag)
        \/ tag.t = "string" /\ Includes(tag.s, <<"m","e","s","s","a","g","e">>)

\* the event tag is missing, or a string
HasEventTag(r) ==
    LET tag == Sub(payload[r], "event")
    IN  ~NonEmpty(tag) \/ tag.t = "string"

Blank(v) == v.t = "string" /\ \A i \in DOMAIN v.s : v.s[i] \in WhiteSpace

\* the text of the message: the first non-empty of body, text and caption
MessageText(r) ==
    FirstOf(<<Sub(Fields(r), "body"), Sub(Fields(r), "text"),
              Sub(Fields(r), "caption")>>, Str(<<>>))

SkipReasons == {"non-message event", "outgoing message", "system or empty message"}

(***************************************************************************)
(* Properties of the normalisation, under SpecNormalize                    *)
(***************************************************************************)
\* C1: a request whose event tag is "message.ack" is answered
\* {status:"skipped", reason:"non-message event"} and calls neither the
\* classifier nor the sink, whatever its other fields are.
C1_AckIsSkipped ==
    \A r \in Reqs :
        Received(r) /\ Sub(payload[r], "event") = Str(<<"m","e","s","s","a","g","e",".","a","c","k">>)
        => trace[r] = <<Respond(Skipped("non-message event"))>>

\* C3: a request that ends skipped answers 200 with one of the three reasons
\* and has made no classifier call and no sink call; an event whose tag is
\* missing or a string and whose text is empty or only white space ends
\* skipped.
C3_SkippedMakesNoCalls ==
    \A r \in Reqs :
        /\ Done(r) /\ Response(r).status = "skipped"
           => /\ Response(r).http = 200
              /\ Response(r).reason \in SkipReasons
              /\ trace[r] = <<Respond(Response(r))>>
        /\ Received(r) /\ HasEventTag(r) /\ Blank(MessageText(r))
           => /\ Done(r)
              /\ Response(r).status = "skipped"
              /\ Len(trace[r]) = 1

C3_Witness ==
    \E r \in Reqs :
        /\ Done(r)
        /\ MessageText(r) = Str(<<" ","\n">>)
        /\ trace[r] = <<Respond(Skipped("system or empty message"))>>

\* C5 as stated: fromMe is the first defined of the fields fromMe and from_me,
\* else false, and a message event is skipped as outgoing exactly when that
\* value is true.
C5_FirstDefinedDecides ==
    \A r \in Reqs :
        Received(r) /\ IsMessageEvent(r)
        => (trace[r] = <<Respond(Skipped("outgoing message"))>>
            <=> FirstDefined(<<Sub(Fields(r), "fromMe"), Sub(Fields(r), "from_me")>>,
                             Bool(FALSE)) = Bool(TRUE))

\* C5 as amended: a message event is skipped as outgoing exactly when one of
\* the fields fromMe and from_me holds a truthy value; from_me is consulted
\* whenever fromMe is absent or falsy.
C5_EitherTruthyDecides ==
    \A r \in Reqs :
        Received(r) /\ IsMessageEvent(r)
        => (trace[r] = <<Respond(Skipped("outgoing message"))>>
            <=> \/ NonEmpty(Sub(Fields(r), "fromMe"))
                \/ NonEmpty(Sub(Fields(r), "from_me")))

C5_Witness ==
    \E r \in Reqs :
        /\ Sub(Fields(r), "fromMe") = Bool(FALSE)
        /\ Sub(Fields(r), "from_me") = Bool(TRUE)
        /\ trace[r] = <<Respond(Skipped("outgoing message"))>>

\* the characters of s before its first "@", all of s when it has none
BeforeAt(s) ==
    IF \E i \in DOMAIN s : s[i] = "@"
    THEN SubSeq(s, 1, (CHOOSE i \in DOMAIN s :
                          s[i] = "@" /\ \A j \in 1..(i - 1) : s[j] # "@") - 1)
    ELSE s

ExpectedChatId(r) ==
    FirstOf(<<Sub(Fields(r), "chatId"), Sub(Fields(r), "from"),
              Sub(Sub(Fields(r), "chat"), "id")>>, Str(<<>>))

ExpectedSourceName(r) ==
    FirstOf(<<Sub(Sub(Fields(r), "_data"), "notifyName"),
              Sub(Fields(r), "notifyName"),
              Sub(Fields(r), "pushName"),
              Sub(Sub(Fields(r), "chat"), "name"),
              IF ExpectedChatId(r).t = "string"
              THEN Str(BeforeAt(ExpectedChatId(r).s)) ELSE Undef>>,
            Str(<<"U","n","k","n","o","w","n">>))

\* C7: for a request that reaches the classifier, chatId is the first
\* non-empty of chatId, from and chat.id, else the empty string, and sourceName
\* is the first non-empty of _data.notifyName, notifyName, pushName, chat.name
\* and the part of chatId before its first "@" (all of a chatId without "@"),
\* else "Unknown".
C7_SourceNameChain ==
    \A r \in Reqs :
        IsSet(msg[r])
        => /\ msg[r].chatId = ExpectedChatId(r)
           /\ msg[r].sourceName = ExpectedSourceName(r)
           /\ trace[r][1] = [e |-> "classify", message |-> MessageText(r),
                             sourceName |-> ExpectedSourceName(r)]

C7_Witness ==
    \E r \in Reqs :
        /\ IsSet(msg[r])
        /\ Sub(Fields(r), "chatId") = Str(<<"1","2","3","4","@","g",".","u","s">>)
        /\ \A k \in {"_data", "notifyName", "pushName", "chat"} :
              ~NonEmpty(Sub(Fields(r), k))
        /\ msg[r].sourceName = Str(<<"1","2","3","4">>)

(***************************************************************************)
(* Properties of the classifier and the sink, under SpecClassifier         *)
(***************************************************************************)
\* choices[0].message.content of a completion, undefined when a link is missing
RawContent(reply) ==
    IF reply.kind = "resolved"
    THEN Sub(Sub(Sub(Sub(reply.data, "choices"), "0"), "message"), "content")
    ELSE Undef

HasText(reply) == RawContent(reply).t = "string"

\* the text holds a "{" with a "}" somewhere after it
HasBraces(text) ==
    \E i, j \in DOMAIN text : i < j /\ text[i] = "{" /\ text[j] = "}"

\* the text from its first "{" to its last "}"
BraceSpan(text) ==
    SubSeq(text,
           CHOOSE i \in DOMAIN text :
               text[i] = "{" /\ \A n \in 1..(i - 1) : text[n] # "{",
           CHOOSE j \in DOMAIN text :
               text[j] = "}" /\ \A n \in (j + 1)..Len(text) : text[n] # "}")

\* the outcomes of the LLM call that C2 lists
FailedCall(reply) ==
    \/ reply.kind = "rejected"
    \/ ~HasText(reply)
    \/ ~HasBraces(RawContent(reply).s)
    \/ JSONparse(BraceSpan(RawContent(reply).s)).t = "throw"

\* C2: on a transport error, a non-2xx status, a completion without
\* choices[0].message.content, a text without {...} and a text whose {...} is
\* not valid JSON, classifyWithGPT returns {isActionItem:false}, and the
\* request answers 200 {status:"processed", isActionItem:false} without a sink
\* call.
C2_FailureIsNotAnActionItem ==
    \A r \in Reqs :
        IsSet(llm[r]) /\ FailedCall(llm[r])
        => /\ classification[r] = NotActionItemResult
           /\ trace[r] = <<ClassifyCall(msg[r]), ClassifyReturn(NotActionItemResult),
                           Respond([http |-> 200, status |-> "processed",
                                    isActionItem |-> FALSE])>>

C2_Witness ==
    \E r \in Reqs :
        /\ Done(r)
        /\ IsSet(llm[r])
        /\ HasText(llm[r])
        /\ HasBraces(RawContent(llm[r]).s)
        /\ JSONparse(BraceSpan(RawContent(llm[r]).s)).t = "throw"
        /\ Response(r).status = "processed"
        /\ ~Response(r).isActionItem

\* the handler's own code throws on this event: the event tag, the message
\* text or the chat id is of a type without the method called on it
OrchestrationThrows(r) ==
    LET tag == Sub(payload[r], "event")
        outgoing == \/ NonEmpty(Sub(Fields(r), "fromMe"))
                    \/ NonEmpty(Sub(Fields(r), "from_me"))
        named == \E v \in {Sub(Sub(Fields(r), "_data"), "notifyName"),
                           Sub(Fields(r), "notifyName"),
                           Sub(Fields(r), "pushName"),
                           Sub(Sub(Fields(r), "chat"), "name")} : NonEmpty(v)
        id == FirstOf(<<Sub(Fields(r), "chatId"), Sub(Fields(r), "from"),
                        Sub(Sub(Fields(r), "chat"), "id")>>, Str(<<>>))
    IN  \/ NonEmpty(tag) /\ tag.t # "string"
        \/ /\ IsMessageEvent(r)
           /\ ~outgoing
           /\ \/ MessageText(r).t # "string"
              \/ ~named /\ id.t # "string"

\* C4: a request answers once, with 200 or 500; once the classifier has been
\* called the answer is 200 however the classifier and the sink calls settle;
\* a request that called the sink answers {status:"processed",
\* isActionItem:true, classification} also when the append failed; and 500
\* {status:"error"} is the answer only of a request whose own handler code
\* threw, before any outbound call.
C4_OnlyOrchestrationErrors500 ==
    \A r \in Reqs :
        Done(r)
        => /\ Cardinality(Events(r, "respond")) = 1
           /\ Response(r).http \in {200, 500}
           /\ Len(trace[r]) > 1 => Response(r).http = 200
           /\ Events(r, "append") # {}
              => Response(r) = [http |-> 200, status |-> "processed",
                                isActionItem |-> TRUE,
                                classification |-> classification[r]]
           /\ Response(r).http = 500
              <=> Response(r).status = "error" /\ OrchestrationThrows(r)

C4_Witness ==
    \E r \in Reqs :
        /\ Done(r)
        /\ IsSet(sheets[r])
        /\ sheets[r].kind = "rejected"
        /\ trace[r][Len(trace[r]) - 1] = [e |-> "appended", ok |-> Bool(FALSE)]
        /\ Response(r).http = 200
        /\ Response(r).isActionItem

\* the record of the request's sink call
Appended1(r) == trace[r][CHOOSE i \in Events(r, "append") : TRUE].data

PositivelyClassified(r) ==
    IsSet(classification[r]) /\ NonEmpty(Sub(classification[r], "isActionItem"))

\* what C6 holds of a positively classified request, given the value the
\* record is to have for a key of the classification
RecordIsBuilt(r, value(_, _)) ==
    /\ Cardinality(Events(r, "append")) = 1
    /\ Appended1(r).source = ExpectedSourceName(r)
    /\ Appended1(r).message = MessageText(r)
    /\ Appended1(r).chatId = ExpectedChatId(r)
    /\ Appended1(r).status = "Open"
    /\ Appended1(r).responsible = value("responsible", Str(<<"U","n","k","n","o","w","n">>))
    /\ Appended1(r).urgency = value("urgency", Str(<<"N","o","r","m","a","l">>))
    /\ Appended1(r).due = value("due", Str(<<"N","o","n","e">>))
    /\ Done(r) => Response(r) = [http |-> 200, status |-> "processed",
                                 isActionItem |-> TRUE,
                                 classification |-> trace[r][2].classification]

\* C6 as stated: the sink receives one record with source, message and chatId
\* of the normalised message, status "Open", and responsible, urgency and due
\* equal to the classifier's value for the key, replaced by "Unknown",
\* "Normal" and "None" when the classifier omitted the key; the answer is 200
\* with isActionItem:true and the classification.
C6_DefaultsWhenOmitted ==
    \A r \in Reqs :
        PositivelyClassified(r)
        => LET value(k, default) ==
                   IF k \in DOMAIN classification[r].f
                   THEN classification[r].f[k] ELSE default
           IN  RecordIsBuilt(r, value)

\* C6 as amended: the default replaces the classifier's value when the key is
\* omitted and also when its value is empty (falsy).
C6_DefaultsWhenOmittedOrEmpty ==
    \A r \in Reqs :
        PositivelyClassified(r)
        => LET value(k, default) ==
                   FirstOf(<<Sub(classification[r], k)>>, default)
           IN  RecordIsBuilt(r, value)

C6_Witness ==
    \E r \in Reqs :
        /\ Done(r)
        /\ PositivelyClassified(r)
        /\ Sub(classification[r], "responsible") = Str(<<"A","l","i","c","e">>)
        /\ Sub(classification[r], "urgency") = Str(<<>>)
        /\ "due" \notin DOMAIN classification[r].f
        /\ Appended1(r).source = Str(<<"A","l","i","c","e">>)
        /\ Appended1(r).chatId = Str(<<"9","9","9","@","c",".","u","s">>)
        /\ Appended1(r).responsible = Str(<<"A","l","i","c","e">>)
        /\ Appended1(r).urgency = Str(<<"N","o","r","m","a","l">>)
        /\ Appended1(r).due = Str(<<"N","o","n","e">>)

\* opening braces less closing braces of text[i..k]
Balance(text, i, k) ==
    Cardinality({n \in i..k : text[n] = "{"}) - Cardinality({n \in i..k : text[n] = "}"})

\* text[i..j] is a balanced {...}: the brace at i is closed at j
Balanced(text, i, j) ==
    /\ i < j
    /\ text[i] = "{"
    /\ Balance(text, i, j) = 0
    /\ \A k \in i..(j - 1) : Balance(text, i, k) > 0

HasBalanced(text) == \E i, j \in DOMAIN text : Balanced(text, i, j)

\* the first balanced {...} of the text
FirstBalanced(text) ==
    LET i == CHOOSE a \in DOMAIN text :
                 /\ \E b \in DOMAIN text : Balanced(text, a, b)
                 /\ \A c \in 1..(a - 1) : \A b \in DOMAIN text : ~Balanced(text, c, b)
        j == CHOOSE b \in DOMAIN text : Balanced(text, i, b)
    IN  SubSeq(text, i, j)

\* C8: when the first balanced {...} of the model's text is a valid JSON
\* object, classifyWithGPT returns its parse, whatever text stands before and
\* after it.
C8_FirstBalancedObjectIsParsed ==
    \A r \in Reqs :
        /\ IsSet(llm[r])
        /\ HasText(llm[r])
        /\ HasBalanced(RawContent(llm[r]).s)
        /\ JSONparse(FirstBalanced(RawContent(llm[r]).s)).t = "object"
        => classification[r] = JSONparse(FirstBalanced(RawContent(llm[r]).s))

(***************************************************************************)
(* Properties of the message filter, under SpecFilter                      *)
(***************************************************************************)
\* w stands in s at position i, letter case aside
OccursAt(s, w, i) ==
    /\ i >= 1
    /\ i + Len(w) - 1 <= Len(s)
    /\ Folded(SubSeq(s, i, i + Len(w) - 1)) = Folded(w)

StartsWith(s, w) == OccursAt(s, w, 1)
EndsWith(s, w) == OccursAt(s, w, Len(s) - Len(w) + 1)
OneLine(s) == \A i \in DOMAIN s : s[i] \notin LineTerminators

\* a group-change notice: after the left-to-right mark, one line that holds
\* "changed the group", "added" or "removed" or ends with "left", or a line
\* that holds "created group", whatever follows it
GroupChange(s) ==
    /\ s # <<>>
    /\ s[1] = "LRM"
    /\ \/ /\ OneLine(s)
          /\ \/ \E i \in 2..Len(s) :
                   \/ OccursAt(s, <<"c","h","a","n","g","e","d"," ","t","h","e"," ","g","r","o","u","p">>, i)
                   \/ OccursAt(s, <<"a","d","d","e","d">>, i)
                   \/ OccursAt(s, <<"r","e","m","o","v","e","d">>, i)
             \/ Len(s) > Len(<<"l","e","f","t">>) /\ EndsWith(s, <<"l","e","f","t">>)
             \/ Len(s) > Len(<<"a","d","d","e","d"," ","y","o","u">>) /\ EndsWith(s, <<"a","d","d","e","d"," ","y","o","u">>)
       \/ \E i \in 2..Len(s) :
             /\ OccursAt(s, <<"c","r","e","a","t","e","d"," ","g","r","o","u","p">>, i)
             /\ OneLine(SubSeq(s, 1, i - 1))

EncryptionBanner(s) == StartsWith(s, <<"M","e","s","s","a","g","e","s"," ","a","n","d"," ","c","a","l","l","s"," ","a","r","e"," ","e","n","d","-","t","o","-","e","n","d"," ","e","n","c","r","y","p","t","e","d">>)
WaitingPlaceholder(s) == StartsWith(s, <<"W","a","i","t","i","n","g"," ","f","o","r"," ","t","h","i","s"," ","m","e","s","s","a","g","e">>)
DeletedPlaceholder(s) ==
    \/ StartsWith(s, <<"T","h","i","s"," ","m","e","s","s","a","g","e"," ","w","a","s"," ","d","e","l","e","t","e","d">>)
    \/ StartsWith(s, <<"Y","o","u"," ","d","e","l","e","t","e","d"," ","t","h","i","s"," ","m","e","s","s","a","g","e">>)
NullWord(s) == Folded(s) = <<"n","u","l","l">>

\* C9: isSystemMessage is true of a body that is empty or only white space and
\* of a body that, untrimmed and letter case aside, is a group-change notice,
\* an encryption banner, a waiting or deleted-message placeholder or the word
\* null; it is false of every other body.  The handler skips the message as
\* "system or empty message" exactly when it is true.
C9_SystemMessages ==
    \A r \in Reqs :
        Received(r)
        => LET b == MessageText(r)
           IN  trace[r] = <<Respond(Skipped("system or empty message"))>>
               <=> \/ Blank(b)
                   \/ GroupChange(b.s)
                   \/ EncryptionBanner(b.s)
                   \/ WaitingPlaceholder(b.s)
                   \/ DeletedPlaceholder(b.s)
                   \/ NullWord(b.s)

C9_Witness ==
    \E r \in Reqs :
        /\ MessageText(r) = Str(<<"LRM","B","o","b"," ","A","d","d","e","d"," ","C","a","r","o","l">>)
        /\ trace[r] = <<Respond(Skipped("system or empty message"))>>

(***************************************************************************)
(* Properties of the handler's order of steps, under Spec                  *)
(***************************************************************************)
Kinds(r) == [i \in DOMAIN trace[r] |-> trace[r][i].e]

\* C10: of each request, with others in flight: the classifier is called at
\* most once and only when normalisation did not skip; the sink is called at
\* most once, right after the classifier returned a classification whose
\* isActionItem is truthy, and never after one whose isActionItem is falsy;
\* the response is sent once, as the last step, and after the sink call has
\* resolved when there was one.
C10_StepsInOrder ==
    \A r \in Reqs :
        /\ pc[r] = "idle" => Kinds(r) = <<>>
        /\ pc[r] = "classifying" => Kinds(r) = <<"classify">>
        /\ pc[r] = "appending"
           => /\ Kinds(r) = <<"classify", "classified", "append">>
              /\ NonEmpty(Sub(trace[r][2].classification, "isActionItem"))
        /\ pc[r] = "done"
           => \/ /\ Kinds(r) = <<"respond">>
                 /\ Response(r).status \in {"skipped", "error"}
              \/ /\ Kinds(r) = <<"classify", "classified", "respond">>
                 /\ ~NonEmpty(Sub(trace[r][2].classification, "isActionItem"))
                 /\ ~Response(r).isActionItem
              \/ /\ Kinds(r) = <<"classify", "classified", "append", "appended", "respond">>
                 /\ NonEmpty(Sub(trace[r][2].classification, "isActionItem"))
                 /\ Response(r).isActionItem

C10_Witness ==
    \E r, q \in Reqs :
        /\ r # q
        /\ pc[r] = "appending"
        /\ Kinds(q) = <<"classify", "classified", "append", "appended", "respond">>
        /\ payload[r] = payload[q]

=============================================================================
